---------------------------- MODULE Spec2Model ----------------------------
(***************************************************************************)
(* A model of limier's annotation-driven argument binder: the class-based  *)
(* wrapper `deduce` (src/deduce/decorators.py; `punctuate` in              *)
(* src/deduce/punctuate.py is the same code over a Registry), the          *)
(* Detective that resolves annotations to converters (src/limier/clues.py) *)
(* and the converters it applies; the Registry of aliases                  *)
(* (src/limier/registry.py, src/colon/registry.py) with its lookup and     *)
(* chain; the converter classes of src/limier/converters.py; the           *)
(* function-style wrapper `deduce` of src/limier/decorators.py; the Brain  *)
(* of src/deduce/knowledge.py; and the default registries of the wrappers  *)
(* that are given none (src/deduce/punctuate.py, src/colon/__init__.py).   *)
(*                                                                         *)
(* Python values are records [k, n, s]: k is the type, n the number of an  *)
(* int, s the text of a str.  A dict is the sequence of its <<key, value>> *)
(* items in insertion order, as CPython (>= 3.6) iterates it.              *)
(***************************************************************************)
EXTENDS Integers, Sequences, FiniteSets, TLC

VARIABLES
    records,                \* Detective._records: clue -> converter
    wrapRecords,            \* history: the records as they were when the function was wrapped
    func,                   \* deduce.func: the wrapped function
    positional_converters,  \* deduce.positional_converters: <<name, converter>>, in order
    keyword_converters,     \* deduce.keyword_converters: defaultdict, as its items in order
    fresh,                  \* history: no call of the wrapper has been made since it was built
    calls,                  \* the calls of the wrapper: each one's locals and position
    aliases,                \* Registry._aliases: alias -> converter, as its items in order
    registered,             \* history: the converter last registered under each alias ("" if none)
    probe,                  \* the converter last obtained from the registry and its last application
    text,                   \* a str given to a Regex converter, as its characters
    outcome,                \* the last call of a Regex converter on text and its result
    wrapper,                \* the function-style deduce's closure: func and `converters`
    wcall,                  \* the call of the function-style wrapper: its locals and position
    brain,                  \* Brain._aliases: alias -> converter, as its items in order
    thought,                \* the last call of Brain.which or Brain.chain and its result
    defaults,               \* the registries built by Registry.default(): each one's _aliases
    REGISTRY,               \* src/colon's module-level _REGISTRY: its _aliases
    punctuated              \* the functions wrapped with the registry omitted: each one's plan

binderVars == <<records, wrapRecords, func, positional_converters, keyword_converters, fresh, calls>>
registryVars == <<aliases, registered, probe>>
regexVars == <<text, outcome>>
wrapperVars == <<wrapper, wcall>>
brainVars == <<brain, thought>>
defaultsVars == <<defaults, REGISTRY, punctuated>>
vars == <<records, wrapRecords, func, positional_converters, keyword_converters, fresh, calls,
          aliases, registered, probe, text, outcome, wrapper, wcall,
          brain, thought, defaults, REGISTRY, punctuated>>

---------------------------------------------------------------------------
(* Bounds and input domains.                                               *)

\* The longest positional argument list a call supplies.
MaxArgs == 3
\* The most keyword arguments a call supplies.
MaxKwargs == 1

PyInt(n) == [k |-> "int", n |-> n, s |-> ""]
PyStr(s) == [k |-> "str", n |-> 0, s |-> s]
None == [k |-> "none", n |-> 0, s |-> ""]
\* inspect.Parameter.empty, the default of a parameter that has none
ParameterEmpty == [k |-> "empty", n |-> 0, s |-> ""]
\* No annotation on a parameter (inspect.Parameter.empty as an annotation)
NoAnnotation == "empty"

\* The values callers supply: an int, a decimal string and a string that is
\* no number.  int() takes the first two and rejects the third with
\* ValueError; str.isdigit raises TypeError on the int, which no converter
\* turns into ValueError.
Values == {PyInt(1), PyStr("2"), PyStr("foo")}

Param(name, annotation, default) ==
    [name |-> name, annotation |-> annotation, default |-> default]

\* The wrapped functions.  "add" is the function of the test suite; "g" mixes
\* an unannotated optional parameter with an annotated one; "h" has two
\* annotated optional parameters with different converters.
\*   def add(x: int, y: int = 0): return x + y
\*   def g(a, b=1, c: int = 2): return (a, b, c)
\* "v" is annotated with a tag that is neither registered nor callable, and
\* its body raises ValueError itself on a string that is no number.
\*   def h(p: int = 0, q: str.isdigit = "0"): return (p, q)
\*   def v(x, t: "tag" = None): return int(x)
\* "k", wrapped by the function-style deduce only, has defaults that are no
\* input of their parameter's converter.
\*   def k(n: int = None, s: str.isdigit = ""): return (n, s)
Signature(f) ==
    CASE f = "add" -> << Param("x", "int", ParameterEmpty), Param("y", "int", PyInt(0)) >>
      [] f = "g"   -> << Param("a", NoAnnotation, ParameterEmpty),
                         Param("b", NoAnnotation, PyInt(1)),
                         Param("c", "int", PyInt(2)) >>
      [] f = "h"   -> << Param("p", "int", PyInt(0)), Param("q", "isdigit", PyStr("0")) >>
      [] f = "v"   -> << Param("x", NoAnnotation, ParameterEmpty), Param("t", "tag", None) >>
      [] f = "k"   -> << Param("n", "int", None), Param("s", "isdigit", PyStr("")) >>

Funcs == {"add", "g", "h", "v"}

\* The functions wrapped by the function-style deduce.
WrapperFuncs == Funcs \cup {"k"}

\* A keyword name no modelled function declares.
UnknownName == "u"

ParamNames(f) == {Signature(f)[i].name : i \in 1..Len(Signature(f))}
KwNames(f) == ParamNames(f) \cup {UnknownName}

SeqsUpTo(S, n) == UNION {[1..m -> S] : m \in 0..n}

---------------------------------------------------------------------------
(* dict, as the sequence of its items.                                     *)

DictKeys(d) == {d[i][1] : i \in 1..Len(d)}
DictIndex(d, key) == CHOOSE i \in 1..Len(d) : d[i][1] = key
DictGet(d, key) == d[DictIndex(d, key)][2]
DictSet(d, key, value) ==
    IF key \in DictKeys(d)
    THEN [d EXCEPT ![DictIndex(d, key)] = <<key, value>>]
    ELSE Append(d, <<key, value>>)

\* The keyword-argument dicts of at most n items a caller can pass: distinct
\* names, in the order written.
KwargsUpTo(names, n) ==
    {kw \in SeqsUpTo(names \X Values, n) :
        \A i, j \in 1..Len(kw) : i # j => kw[i][1] # kw[j][1]}

---------------------------------------------------------------------------
(* Converters.  The result of applying one is [st, v, msg]: st is "ok"     *)
(* with the converted value v, or the exception class raised, with its     *)
(* message.                                                                *)

Ok(v) == [st |-> "ok", v |-> v, msg |-> ""]
Raise(exc, msg) == [st |-> exc, v |-> None, msg |-> msg]

\* The decimal literals int() parses, with their values.
DecimalLiterals == [s \in {"0", "1", "2", "3"} |->
    CASE s = "0" -> 0 [] s = "1" -> 1 [] s = "2" -> 2 [] s = "3" -> 3]

\* The builtin int, the converter of the annotation `int` (no clue is
\* recorded for it, so the Detective hands back the callable itself).
BuiltinInt(value) ==
    CASE value.k = "int" -> Ok(value)
      [] value.k = "str" ->
            IF value.s \in DOMAIN DecimalLiterals
            THEN Ok(PyInt(DecimalLiterals[value.s]))
            ELSE Raise("ValueError",
                       "invalid literal for int() with base 10: '" \o value.s \o "'")
      [] OTHER -> Raise("TypeError", "int() argument must be a string or a number")

\* str.isdigit, the test of the default clue Filter(str.isdigit).
StrIsdigit(value) ==
    IF value.k = "str"
    THEN [st |-> "ok", b |-> value.s \in DOMAIN DecimalLiterals]
    ELSE [st |-> "TypeError", b |-> FALSE]

PyBool(b) == [k |-> "bool", n |-> IF b THEN 1 ELSE 0, s |-> ""]

\* str.isdigit called where a converter is expected: it returns the bool.
StrIsdigitCall(value) ==
    LET t == StrIsdigit(value) IN
    IF t.st = "ok" THEN Ok(PyBool(t.b))
    ELSE Raise("TypeError", "descriptor 'isdigit' requires a 'str' object")

\* Filter.__call__ with test = str.isdigit.
FilterIsdigit(value) ==
    LET t == StrIsdigit(value) IN
    IF t.st # "ok" THEN Raise("TypeError", "descriptor 'isdigit' requires a 'str' object")
    ELSE IF ~t.b THEN Raise("ValueError", "'" \o value.s \o "' does not satisfy 'isdigit'")
    ELSE Ok(value)

\* A converter that drops its input.
Identity_None(value) == Ok(None)

\* Identity.__call__
Identity(value) == Ok(value)

PyDecimal(n) == [k |-> "Decimal", n |-> n, s |-> ""]

\* decimal.Decimal(value): its failure on a malformed string is
\* decimal.InvalidOperation, which is not a ValueError.
Decimal(value) ==
    CASE value.k = "int" -> Ok(PyDecimal(value.n))
      [] value.k = "str" ->
            IF value.s \in DOMAIN DecimalLiterals
            THEN Ok(PyDecimal(DecimalLiterals[value.s]))
            ELSE Raise("InvalidOperation", "[<class 'decimal.ConversionSyntax'>]")
      [] OTHER -> Raise("TypeError", "conversion from NoneType to Decimal is not supported")

\* An alias that is no callable (a str tag): calling it is a TypeError.
NotCallable(value) == Raise("TypeError", "'str' object is not callable")

\* The exception classes a Transform is configured with; none of them is a
\* subclass of another, so `except kind` catches exactly its own kind.
ExcKinds == {"ValueError", "InvalidOperation", "TypeError"}

\* Transform(transformation, raised_if_invalid), the converter object.
Transform(transformation, raised_if_invalid) ==
    "Transform(" \o transformation \o ", " \o raised_if_invalid \o ")"

\* The callables a Transform wraps: builtins, a non-callable tag, converter
\* objects, and Transforms of these.
BaseCallables == {"int", "isdigit", "Decimal", "tag", "identity", "Filter(isdigit)"}
Callables == BaseCallables \cup {Transform(t[1], t[2]) : t \in BaseCallables \X ExcKinds}

Transforms == {Transform(t[1], t[2]) : t \in Callables \X ExcKinds}
\* <<transformation, raised_if_invalid>> of a Transform object
TransformFields(converter) ==
    CHOOSE t \in Callables \X ExcKinds : Transform(t[1], t[2]) = converter

PySet(members) == [k |-> "set", n |-> 0, s |-> "", members |-> members]
PyTuple(items) == [k |-> "tuple", n |-> 0, s |-> "", items |-> items]

\* a == b for the keys of a dict: bool is an int (True == 1, False == 0,
\* with equal hashes); otherwise values of different types differ.
PyEq(a, b) ==
    IF a.k \in {"int", "bool"} /\ b.k \in {"int", "bool"} THEN a.n = b.n ELSE a = b

\* str(value), for the values that appear in messages.
PyStrOf(value) ==
    CASE value.k = "str" -> value.s
      [] value.k = "int" -> IF value.n = 0 THEN "0" ELSE "1"
      [] value.k = "bool" -> IF value.n = 1 THEN "True" ELSE "False"
      [] OTHER -> "None"

\* d[key] = value on a dict with arbitrary hashable keys.
PyDictSet(d, key, value) ==
    IF \E i \in 1..Len(d) : PyEq(d[i][1], key)
    THEN [i \in 1..Len(d) |-> IF PyEq(d[i][1], key) THEN <<d[i][1], value>> ELSE d[i]]
    ELSE Append(d, <<key, value>>)

\* Equiv.__init__: a tuple key is expanded into one entry per member, any
\* other key is entered as it is.  self.mapping afterwards.
RECURSIVE SetEach(_, _, _)
SetEach(d, keys, value) ==
    IF keys = <<>> THEN d ELSE SetEach(PyDictSet(d, keys[1], value), Tail(keys), value)

RECURSIVE EquivInit(_, _)
EquivInit(d, items) ==
    IF items = <<>> THEN d
    ELSE LET key == items[1][1]
             value == items[1][2]
         IN EquivInit(IF key.k = "tuple" THEN SetEach(d, key.items, value)
                      ELSE PyDictSet(d, key, value),
                      Tail(items))

\* The tables of the aliases bool and None in ALIASES: each output value
\* with the set of its raw inputs.
BoolTable == << <<PyBool(TRUE), PySet({"true", "True", "yes", "y", "1"})>>,
                <<PyBool(FALSE), PySet({"false", "False", "no", "n", "0"})>> >>
NoneTable == << <<None, PySet({"null", "none"})>> >>

\* Equiv.__call__: self.mapping[value], a KeyError becoming ValueError.
EquivCall(mapping, value) ==
    IF \E i \in 1..Len(mapping) : PyEq(mapping[i][1], value)
    THEN Ok(mapping[CHOOSE i \in 1..Len(mapping) : PyEq(mapping[i][1], value)][2])
    ELSE Raise("ValueError", "no equivalent for '" \o PyStrOf(value) \o "'")

RECURSIVE Apply(_, _)

\* A Transform that turns every exception into ValueError.
TransformCall_CatchAll(converter, value) ==
    LET r == Apply(TransformFields(converter)[1], value) IN
    IF r.st = "ok" THEN r ELSE Raise("ValueError", r.msg)

\* Transform.__call__: try transformation(value); except raised_if_invalid
\* as exc: raise ValueError(str(exc)).
TransformCall(converter, value) ==
    LET t == TransformFields(converter)
        r == Apply(t[1], value)
    IN
    IF r.st = t[2] THEN Raise("ValueError", r.msg) ELSE r

\* converter(value): the call of a converter object or of any other object
\* standing where a converter is expected.
Apply(converter, value) ==
    CASE converter = "identity" -> Identity(value)
      [] converter = "int" -> BuiltinInt(value)
      [] converter = "Filter(isdigit)" -> FilterIsdigit(value)
      [] converter = "isdigit" -> StrIsdigitCall(value)
      [] converter = "Decimal" -> Decimal(value)
      [] converter = "tag" -> NotCallable(value)
      [] converter = "Equiv(bool)" -> EquivCall(EquivInit(<<>>, BoolTable), value)
      [] converter = "Equiv(None)" -> EquivCall(EquivInit(<<>>, NoneTable), value)
      [] converter \in Transforms -> TransformCall(converter, value)

---------------------------------------------------------------------------
(* The Detective.                                                          *)

\* CLUES, the clues of Detective.default()
CLUES == [clue \in {"isdigit"} |-> "Filter(isdigit)"]

\* Detective.retrieve
Retrieve(recs, clue) == IF clue \in DOMAIN recs THEN recs[clue] ELSE clue

---------------------------------------------------------------------------
(* Regex converters.  A str is the sequence of its characters; a pattern   *)
(* is a sequence of atoms, an atom a sequence of alternatives tried in     *)
(* order, an alternative a character class repeated min..max times,        *)
(* greedily.                                                               *)

\* The characters typed into a text: digits, the separators, a letter.
Alphabet == {"0", "1", "5", ":", ".", "a"}
\* \d
Digits == {"0", "1", "2", "3", "4", "5", "6", "7", "8", "9"}
\* The longest text given to a converter.
MaxLen == 5

\* No upper limit on a repetition (+).
Unbounded == -1

Rep(chars, min, max) == [chars |-> chars, min |-> min, max |-> max]

\* A pattern with two dots only: (\d+)(?:\.{2}|:)(\d+)
RangePattern_TwoDots ==
    [source |-> "(\\d+)(?:\\.{2}|:)(\\d+)",
     atoms |-> << <<Rep(Digits, 1, Unbounded)>>,
                  <<Rep({"."}, 2, 2), Rep({":"}, 1, 1)>>,
                  <<Rep(Digits, 1, Unbounded)>> >>]

\* Range.pattern = re.compile(r"(\d+)(?:\.{2,3}|:)(\d+)")
RangePattern ==
    [source |-> "(\\d+)(?:\\.{2,3}|:)(\\d+)",
     atoms |-> << <<Rep(Digits, 1, Unbounded)>>,
                  <<Rep({"."}, 2, 3), Rep({":"}, 1, 1)>>,
                  <<Rep(Digits, 1, Unbounded)>> >>]

\* Regex(r"\d+"), a base Regex converter
DigitsPattern ==
    [source |-> "\\d+", atoms |-> << <<Rep(Digits, 1, Unbounded)>> >>]

\* The number of characters of `chars` the text holds from position pos + 1
\* on, at most max.
RECURSIVE Run(_, _, _, _)
Run(chars, max, value, pos) ==
    IF max = 0 \/ pos >= Len(value) \/ value[pos + 1] \notin chars THEN 0
    ELSE 1 + Run(chars, IF max = Unbounded THEN Unbounded ELSE max - 1, value, pos + 1)

\* The atoms i.. matched against the text from position pos + 1 on, as the
\* backtracking matcher does it: the first alternative and the longest
\* repetition with which the rest matches.  [ok, ends]: whether there is a
\* match and the position each atom ends at.
RECURSIVE MatchFrom(_, _, _, _)
MatchFrom(atoms, i, value, pos) ==
    IF i > Len(atoms) THEN [ok |-> TRUE, ends |-> <<>>]
    ELSE LET alts == atoms[i]
             fits == {c \in UNION {{a} \X (alts[a].min..Run(alts[a].chars, alts[a].max, value, pos)) :
                                        a \in 1..Len(alts)} :
                         MatchFrom(atoms, i + 1, value, pos + c[2]).ok}
         IN IF fits = {} THEN [ok |-> FALSE, ends |-> <<>>]
            ELSE LET best == CHOOSE c \in fits :
                                \A d \in fits : c[1] < d[1] \/ (c[1] = d[1] /\ c[2] >= d[2])
                     rest == MatchFrom(atoms, i + 1, value, pos + best[2])
                 IN [ok |-> TRUE, ends |-> <<pos + best[2]>> \o rest.ends]

\* self._pattern.match(value): a match anchored at the start of the value.
\* [ok, string, ends]: match.string is the value that was passed to match().
Match(pattern, value) ==
    LET m == MatchFrom(pattern.atoms, 1, value, 0) IN
    [ok |-> m.ok, string |-> value, ends |-> m.ends]

\* The text of a sequence of characters.
RECURSIVE Join(_)
Join(chars) == IF chars = <<>> THEN "" ELSE chars[1] \o Join(Tail(chars))

DigitValue(ch) ==
    CASE ch = "0" -> 0 [] ch = "1" -> 1 [] ch = "2" -> 2 [] ch = "3" -> 3 [] ch = "4" -> 4
      [] ch = "5" -> 5 [] ch = "6" -> 6 [] ch = "7" -> 7 [] ch = "8" -> 8 [] ch = "9" -> 9

\* int(s) for a str of digits
RECURSIVE IntOfDigits(_)
IntOfDigits(chars) ==
    IF chars = <<>> THEN 0
    ELSE 10 * IntOfDigits(SubSeq(chars, 1, Len(chars) - 1)) + DigitValue(chars[Len(chars)])

\* range(start, stop)
PyRange(start, stop) == [k |-> "range", start |-> start, stop |-> stop]

\* match.group(1) and match.group(2) of Range.pattern: the first and the
\* third atom.
Group(m, g) ==
    IF g = 1 THEN SubSeq(m.string, 1, m.ends[1])
    ELSE SubSeq(m.string, m.ends[2] + 1, m.ends[3])

\* Regex.convert: return match.string
RegexConvert(m) == Ok(PyStr(Join(m.string)))

\* Range.convert: range(int(match.group(1)), int(match.group(2)))
RangeConvert(m) == Ok(PyRange(IntOfDigits(Group(m, 1)), IntOfDigits(Group(m, 2))))

\* Regex.__call__ of the class cls ("Regex" or "Range") with the pattern.
RegexCall(cls, pattern, value) ==
    LET m == Match(pattern, value) IN
    IF ~m.ok
    THEN Raise("ValueError", "did not match '" \o pattern.source \o "': '" \o Join(value) \o "'")
    ELSE IF cls = "Range" THEN RangeConvert(m) ELSE RegexConvert(m)

NoOutcome == [cls |-> "", pattern |-> DigitsPattern, matched |-> FALSE, ends |-> <<>>, out |-> Ok(None)]

RegexInit ==
    /\ text = <<>>
    /\ outcome = NoOutcome

---------------------------------------------------------------------------
(* The Registry of aliases.                                                *)

\* ALIASES, the aliases of Registry.default(), in the order of the table:
\* the str filters first, then the special transforms.
ALIASES == << <<"isdigit", "Filter(isdigit)">>,
              <<"Decimal", Transform("Decimal", "InvalidOperation")>>,
              <<"bool", "Equiv(bool)">>,
              <<"None", "Equiv(None)">> >>

\* self._aliases[alias] = func, without overwriting (dict.setdefault).
RegistryConverter_KeepFirst(d, converter, alias) ==
    IF alias \in DictKeys(d) THEN d ELSE Append(d, <<alias, converter>>)

\* Registry.converter(func, alias) (Registry.register(alias, converter) in
\* src/colon): self._aliases[alias] = func.  The registry afterwards.
RegistryConverter(d, converter, alias) == DictSet(d, alias, converter)

\* Registry(): no alias.
RegistryNew == <<>>

\* Registry.default(): every item of ALIASES registered on a new registry.
RECURSIVE RegisterAll(_, _)
RegisterAll(d, items) ==
    IF items = <<>> THEN d
    ELSE RegisterAll(RegistryConverter(d, items[1][2], items[1][1]), Tail(items))

RegistryDefault == RegisterAll(RegistryNew, ALIASES)

\* The result of a lookup: the converter found, or the exception raised.
Found(converter) == [st |-> "ok", converter |-> converter]
LookupError(exc) == [st |-> exc, converter |-> ""]

\* A lookup with no fallback for an unregistered alias.
RegistryGet_NoFallback(d, alias) ==
    IF alias \in DictKeys(d) THEN Found(DictGet(d, alias)) ELSE LookupError("KeyError")

\* Registry.get of src/limier: self._aliases.get(alias, alias).
RegistryGet(d, alias) ==
    IF alias \in DictKeys(d) THEN Found(DictGet(d, alias)) ELSE Found(alias)

\* Registry.get of src/colon: self._aliases[annotation], and on KeyError
\* Transform(annotation).
ColonRegistryGet(d, annotation) ==
    IF annotation \in DictKeys(d) THEN Found(DictGet(d, annotation))
    ELSE Found(Transform(annotation, "ValueError"))

\* converters = [self.get(value) for value in aliases_or_converters], read
\* from the registry at every application instead of once.
ChainConverters_Live(built, now) ==
    [i \in 1..Len(built.args) |-> RegistryGet(now, built.args[i]).converter]

\* The converters a chain applies: the list built by Registry.chain, which
\* its closure `convert` keeps.
ChainConverters(built, now) ==
    [i \in 1..Len(built.lookups) |-> built.lookups[i].converter]

\* reduce(lambda val, converter: converter(val), converters, value): the
\* result of every stage applied, in order; an exception ends the fold.
RECURSIVE Stages(_, _)
Stages(converters, value) ==
    IF converters = <<>> THEN <<>>
    ELSE LET r == Apply(converters[1], value) IN
         IF r.st = "ok" THEN <<r>> \o Stages(Tail(converters), r.v) ELSE <<r>>

\* The chain applied: Transform(convert)(value), with Transform's default
\* raised_if_invalid = ValueError.
ChainCall(converters, value) ==
    LET trace == Stages(converters, value)
        r == IF trace = <<>> THEN Ok(value) ELSE trace[Len(trace)]
    IN IF r.st = "ValueError" THEN Raise("ValueError", r.msg) ELSE r

\* The aliases registered and the converters registered under them.
RegistryAliases == {"int", "isdigit"}
RegistryConverters == {"identity", "Filter(isdigit)"}
\* The aliases and converter objects looked up or given to chain.
LookupKeys == {"int", "isdigit", "Decimal", "tag", "identity", "Filter(isdigit)"}
\* The aliases looked up.
GetKeys == LookupKeys \cup {"bool", "None"}
\* The longest chain built.
MaxChain == 2
\* The values converters obtained from the registry are applied to.
RegistryValues == {PyInt(1), PyStr("2"), PyStr("foo"), None}
\* The values the equivalence converters are applied to: inputs of the
\* tables of bool and None, a string of neither, and an int.
EquivInputs == {PyStr("true"), PyStr("1"), PyStr("no"), PyStr("null"), PyStr("sure"), PyInt(1)}

\* Which Registry class is asked.
Flavours == {"limier", "colon"}

NoProbe == [kind |-> "none", flavour |-> "", args |-> <<>>, lookups |-> <<>>, built |-> <<>>,
            called |-> FALSE, arg |-> None, stages |-> <<>>, out |-> Ok(None)]

\* registry.get(alias) of the given class
GetOf(flavour, d, alias) ==
    IF flavour = "limier" THEN RegistryGet(d, alias) ELSE ColonRegistryGet(d, alias)

RegistryInit ==
    /\ aliases = RegistryDefault
    /\ registered = [a \in GetKeys |->
                        IF a \in DictKeys(RegistryDefault) THEN DictGet(RegistryDefault, a) ELSE ""]
    /\ probe = NoProbe

---------------------------------------------------------------------------
(* The Brain of src/deduce/knowledge.py.                                   *)

\* knowledge.ALIASES, as its items in order: the str filters, Decimal, bool
\* and None of the modelled converters.
KnowledgeALIASES == << <<"isdigit", "Filter(isdigit)">>,
                       <<"Decimal", Transform("Decimal", "InvalidOperation")>>,
                       <<"bool", "Equiv(bool)">>,
                       <<"None", "Equiv(None)">> >>

\* The attributes of a Brain instance that are methods of the class.
BrainMethods == {"default", "learn", "which", "chain"}

\* Brain.learn(alias, converter): self._aliases[alias] = converter.
BrainLearn(d, alias, converter) == DictSet(d, alias, converter)

\* Brain.default(): every item of ALIASES learned by a new brain.
RECURSIVE LearnAll(_, _)
LearnAll(d, items) ==
    IF items = <<>> THEN d
    ELSE LearnAll(BrainLearn(d, items[1][1], items[1][2]), Tail(items))

BrainDefault == LearnAll(<<>>, KnowledgeALIASES)

\* Brain.which(alias): self._aliases.get(alias, alias).
BrainWhich(d, alias) == IF alias \in DictKeys(d) THEN DictGet(d, alias) ELSE alias

\* self.<name>(alias) on a Brain: AttributeError for a name the class does
\* not define; `which` is the only lookup it defines.
BrainLookup(d, name, alias) ==
    IF name \notin BrainMethods THEN LookupError("AttributeError")
    ELSE Found(BrainWhich(d, alias))

\* converters = [self.get(arg) for arg in args] of Brain.chain: one lookup per
\* argument, up to and including the first that raises.
RECURSIVE BrainChainLookups(_, _)
BrainChainLookups(d, args) ==
    IF args = <<>> THEN <<>>
    ELSE LET l == BrainLookup(d, "get", args[1]) IN
         IF l.st = "ok" THEN <<l>> \o BrainChainLookups(d, Tail(args)) ELSE <<l>>

\* Brain.chain(*args): the exception the comprehension raises, or the
\* Transform(convert) over the converters it collected.
BrainChain(d, args) ==
    LET lookups == BrainChainLookups(d, args)
        failed == lookups # <<>> /\ lookups[Len(lookups)].st # "ok"
    IN [exc |-> IF failed THEN lookups[Len(lookups)].st ELSE "",
        lookups |-> lookups,
        converters |-> IF failed THEN <<>> ELSE [i \in 1..Len(lookups) |-> lookups[i].converter]]

\* No call of the brain has been made.
NoThought == [kind |-> "none", args |-> <<>>, exc |-> "", lookups |-> <<>>, converters |-> <<>>,
              called |-> FALSE, arg |-> None, out |-> Ok(None)]

BrainInit ==
    /\ brain = BrainDefault
    /\ thought = NoThought

---------------------------------------------------------------------------
(* Wrapping: the plan built by deduce.__init__.                            *)

\* _filter(parameters, required)
Filter(params, required) ==
    SelectSeq(params, LAMBDA p : (required /\ p.default = ParameterEmpty)
                              \/ (~required /\ p.default # ParameterEmpty))

\* deduce._build_positional_converters
BuildPositionalConverters(params, recs) ==
    LET req == Filter(params, TRUE) IN
    [i \in 1..Len(req) |->
        <<req[i].name,
          IF req[i].annotation = NoAnnotation THEN "identity"
          ELSE Retrieve(recs, req[i].annotation)>>]

\* deduce._build_keyword_converters
BuildKeywordConverters(params, recs) ==
    LET ann == SelectSeq(Filter(params, FALSE), LAMBDA p : p.annotation # NoAnnotation) IN
    [i \in 1..Len(ann) |-> <<ann[i].name, Retrieve(recs, ann[i].annotation)>>]

\* A default factory that converts instead of passing through.
DefaultFactory_Int == "int"

\* The default factory of keyword_converters: lambda: Converter.identity
DefaultFactory == "identity"

\* defaultdict.__getitem__: a missing key is inserted with the factory's value.
\* [d |-> the dict afterwards, value |-> the item's value]
DefaultDictGet(d, key) ==
    IF key \in DictKeys(d)
    THEN [d |-> d, value |-> DictGet(d, key)]
    ELSE [d |-> Append(d, <<key, DefaultFactory>>), value |-> DefaultFactory]

---------------------------------------------------------------------------
(* The wrapped function's own call.                                        *)

NoResult == [kind |-> "none", ret |-> <<>>]

\* x + y
Add(x, y) ==
    CASE x.k = "int" /\ y.k = "int" -> [kind |-> "return", ret |-> <<PyInt(x.n + y.n)>>]
      [] x.k = "str" /\ y.k = "str" -> [kind |-> "return", ret |-> <<PyStr(x.s \o y.s)>>]
      [] OTHER -> [kind |-> "TypeError", ret |-> <<>>]

\* The function's body, run on the values bound to its parameters.
Body(f, bound) ==
    CASE f = "add" -> Add(bound[1], bound[2])
      [] f = "v" -> LET r == BuiltinInt(bound[1]) IN
                    IF r.st = "ok" THEN [kind |-> "return", ret |-> <<r.v>>]
                    ELSE [kind |-> r.st, ret |-> <<>>]
      [] OTHER -> [kind |-> "return", ret |-> bound]

\* func(*args, **kwargs): Python binds the arguments to the parameters (a
\* TypeError for too many positional values, an unexpected keyword, a
\* parameter given twice or a required one missing), then runs the body.
CallFunc(f, args, kwargs) ==
    LET params == Signature(f)
        n == Len(params)
        given(i) == i <= Len(args) \/ params[i].name \in DictKeys(kwargs)
    IN
    IF \/ Len(args) > n
       \/ \E key \in DictKeys(kwargs) : key \notin ParamNames(f)
       \/ \E i \in 1..n : i <= Len(args) /\ params[i].name \in DictKeys(kwargs)
       \/ \E i \in 1..n : ~given(i) /\ params[i].default = ParameterEmpty
    THEN [kind |-> "TypeError", ret |-> <<>>]
    ELSE Body(f, [i \in 1..n |->
                    IF i <= Len(args) THEN args[i]
                    ELSE IF params[i].name \in DictKeys(kwargs)
                         THEN DictGet(kwargs, params[i].name)
                         ELSE params[i].default])

---------------------------------------------------------------------------
(* A call of the wrapper: deduce.__call__ and deduce.convert.              *)

\* The wrapper object, as a call reads it.
Self == [func |-> func, detective |-> records,
         positional_converters |-> positional_converters,
         keyword_converters |-> keyword_converters]

\* A call that has not been made.  `used` (the <<name, converter>> applied to
\* each value so far), `invoked` (how often the function was called) and
\* `plan0` (keyword_converters as the call found it) are history.
Idle == [pc |-> "idle", args |-> <<>>, kwargs |-> <<>>, i |-> 0, j |-> 0,
         fallbacks |-> [pos |-> 0, used |-> 0],
         errors |-> <<>>, converted_args |-> <<>>, converted_kwargs |-> <<>>,
         used |-> <<>>, exc |-> "", invoked |-> 0, result |-> NoResult,
         plan0 |-> <<>>]

\* __call__ entered, convert() at its first loop: errors = {}, converted_args
\* = [], fallbacks = iter(self.keyword_converters.items()).  A dict iterator
\* remembers the dict's size when it is made.
Enter(self, args, kwargs) ==
    [Idle EXCEPT !.pc = "collecting", !.args = args, !.kwargs = kwargs,
                 !.fallbacks = [pos |-> 0, used |-> Len(self.keyword_converters)],
                 !.plan0 = self.keyword_converters]

\* next(fallbacks) on the items iterator of dict d: RuntimeError when the
\* dict changed size since the iterator was made, StopIteration at its end.
NextFallback(it, d) ==
    IF it.used # Len(d)
    THEN [st |-> "RuntimeError", it |-> it, item |-> <<"", "">>]
    ELSE IF it.pos < Len(d)
    THEN [st |-> "ok", it |-> [it EXCEPT !.pos = @ + 1], item |-> d[it.pos + 1]]
    ELSE [st |-> "StopIteration", it |-> it, item |-> <<"", "">>]

\* A plan that keeps the annotation and asks the detective on every call.
PositionalEntry_Live(self, i) ==
    IF i <= Len(self.positional_converters)
    THEN LET name == self.positional_converters[i][1]
             p == CHOOSE q \in {Signature(self.func)[n] : n \in 1..Len(Signature(self.func))} :
                     q.name = name
         IN [st |-> "ok",
             item |-> <<name, IF p.annotation = NoAnnotation THEN "identity"
                              ELSE Retrieve(self.detective, p.annotation)>>]
    ELSE [st |-> "IndexError", item |-> <<"", "">>]

\* self.positional_converters[i], or the IndexError that sends the loop to
\* the fallbacks.
PositionalEntry(self, i) ==
    IF i <= Len(self.positional_converters)
    THEN [st |-> "ok", item |-> self.positional_converters[i]]
    ELSE [st |-> "IndexError", item |-> <<"", "">>]

\* One iteration of `for i, value in enumerate(args)`.
PositionalStep(self, c) ==
    LET i == c.i + 1
        value == c.args[i]
        e == PositionalEntry(self, i)
        nf == NextFallback(c.fallbacks, self.keyword_converters)
        st == IF e.st = "ok" THEN "ok" ELSE nf.st
        item == IF e.st = "ok" THEN e.item ELSE nf.item
        it == IF e.st = "ok" THEN c.fallbacks ELSE nf.it
        r == Apply(item[2], value)
    IN
    IF st # "ok"
    THEN [c EXCEPT !.pc = "aborted", !.exc = st, !.i = i]
    ELSE IF r.st = "ok"
    THEN [c EXCEPT !.i = i, !.fallbacks = it, !.used = Append(@, item),
                   !.converted_args = Append(@, r.v)]
    ELSE IF r.st = "ValueError"
    THEN [c EXCEPT !.i = i, !.fallbacks = it, !.used = Append(@, item),
                   !.errors = DictSet(@, item[1], r.msg)]
    ELSE [c EXCEPT !.pc = "aborted", !.exc = r.st, !.i = i, !.fallbacks = it,
                   !.used = Append(@, item)]

\* One iteration of `for name, value in kwargs.items()`: the call afterwards
\* and self.keyword_converters afterwards.
KeywordStep(self, c) ==
    LET j == c.j + 1
        name == c.kwargs[j][1]
        value == c.kwargs[j][2]
        g == DefaultDictGet(self.keyword_converters, name)
        r == Apply(g.value, value)
        item == <<name, g.value>>
    IN
    [kc |-> g.d,
     call |->
        IF r.st = "ok"
        THEN [c EXCEPT !.j = j, !.used = Append(@, item),
                       !.converted_kwargs = DictSet(@, name, r.v)]
        ELSE IF r.st = "ValueError"
        THEN [c EXCEPT !.j = j, !.used = Append(@, item),
                       !.errors = DictSet(@, name, r.msg)]
        ELSE [c EXCEPT !.pc = "aborted", !.exc = r.st, !.j = j,
                       !.used = Append(@, item)]]

\* convert() without its `if errors: raise`.
Conclude_NeverRaises(c) == [c EXCEPT !.pc = "invoking"]

\* The end of convert(): `if errors: raise ConversionError(**errors)`, which
\* __call__ re-raises; otherwise the converted values go to the function.
Conclude(c) ==
    IF c.errors # <<>>
    THEN [c EXCEPT !.pc = "rejected", !.exc = "ConversionError"]
    ELSE [c EXCEPT !.pc = "invoking"]

\* A call of the function that reports the body's exception as a
\* ConversionError.
Invoke_AsConversionError(self, c) ==
    LET r == CallFunc(self.func, c.converted_args, c.converted_kwargs) IN
    [c EXCEPT !.pc = "done", !.invoked = @ + 1, !.result = r,
              !.exc = IF r.kind = "return" THEN "" ELSE "ConversionError"]

\* return self.func(*converted_args, **converted_kwargs)
Invoke(self, c) ==
    LET r == CallFunc(self.func, c.converted_args, c.converted_kwargs) IN
    [c EXCEPT !.pc = "done", !.invoked = @ + 1, !.result = r,
              !.exc = IF r.kind = "return" THEN "" ELSE r.kind]

\* One step of convert(), whichever is next.
ConvertStep(self, c) ==
    IF c.i < Len(c.args)
    THEN [kc |-> self.keyword_converters, call |-> PositionalStep(self, c)]
    ELSE IF c.j < Len(c.kwargs)
    THEN KeywordStep(self, c)
    ELSE [kc |-> self.keyword_converters, call |-> Conclude(c)]

\* convert() from where call c stands to its end.
RECURSIVE RunConvert(_, _)
RunConvert(self, c) ==
    IF c.pc # "collecting"
    THEN [kc |-> self.keyword_converters, call |-> c]
    ELSE LET s == ConvertStep(self, c) IN
         RunConvert([self EXCEPT !.keyword_converters = s.kc], s.call)

Finished(c) == c.pc \in {"rejected", "aborted", "done"}

---------------------------------------------------------------------------
(* Default registries: Registry.default() of src/limier/registry.py, the   *)
(* module-level _REGISTRY of src/colon/__init__.py, and the wrappers that  *)
(* are given no registry.                                                  *)

\* The most registries built by Registry.default().
MaxRegistries == 2
\* The most functions wrapped with the registry omitted.
MaxWrapped == 1
\* The functions wrapped with the registry omitted.
PunctuatedFuncs == {"add", "h"}
\* The converter registered on the default registries: under "isdigit" it
\* replaces a default alias, under "int" it adds one.
DefaultsConverters == {"identity"}

\* The plan of a wrapper: the converter of every required parameter
\* (identity for one with no annotation) and of every annotated optional one,
\* each resolved by registry.get of the given class.
PunctuatePlan(flavour, params, d) ==
    LET req == Filter(params, TRUE)
        ann == SelectSeq(Filter(params, FALSE), LAMBDA p : p.annotation # NoAnnotation)
    IN [positional |-> [i \in 1..Len(req) |->
                           <<req[i].name,
                             IF req[i].annotation = NoAnnotation THEN "identity"
                             ELSE GetOf(flavour, d, req[i].annotation).converter>>],
        keyword |-> [i \in 1..Len(ann) |->
                           <<ann[i].name, GetOf(flavour, d, ann[i].annotation).converter>>]]

\* punctuate(func) of src/deduce/punctuate.py, the registry omitted:
\* self.registry = Registry.default(), then self._build_converters().
PunctuateClass(f) ==
    LET registry == RegistryDefault IN
    [binder |-> "class", func |-> f, registry |-> registry,
     plan |-> PunctuatePlan("limier", Signature(f), registry)]

\* punctuate(func) of src/colon/__init__.py, the registry omitted:
\* _registry = _REGISTRY, the module's registry as it is now; the closure
\* holds no registry of its own.
PunctuateColon(f, module_registry) ==
    [binder |-> "colon", func |-> f, registry |-> <<>>,
     plan |-> PunctuatePlan("colon", Signature(f), module_registry)]

\* The plan the same wrapper has over a default registry nothing was
\* registered on.
PristinePlan(w) ==
    PunctuatePlan(IF w.binder = "class" THEN "limier" ELSE "colon", Signature(w.func),
                  RegistryDefault)

\* The module-level registries, as they are once the packages are imported:
\* _REGISTRY = Registry.default() in src/limier/__init__.py, the first of
\* `defaults`, and in src/colon/__init__.py.  No function is wrapped yet.
DefaultsInit ==
    /\ defaults = << RegistryDefault >>
    /\ REGISTRY = RegistryDefault
    /\ punctuated = <<>>

---------------------------------------------------------------------------
(* The function-style wrapper: deduce(func, detective) of                  *)
(* src/limier/decorators.py and a call of its `wrapper`.                   *)

\* converters = {name: detective.retrieve(param.annotation) for the
\* annotated parameters}, in declaration order.
BuildConverters(params, recs) ==
    LET ann == SelectSeq(params, LAMBDA p : p.annotation # NoAnnotation) IN
    [i \in 1..Len(ann) |-> <<ann[i].name, Retrieve(recs, ann[i].annotation)>>]

\* deduce(func, detective): what the returned wrapper closes over.
Deduce(f, recs) == [func |-> f, converters |-> BuildConverters(Signature(f), recs)]

\* sig.bind(*args, **kwargs): the TypeError of a call the signature does not
\* accept, or bound.arguments, the supplied values by parameter name in
\* declaration order.
SigBind(f, args, kwargs) ==
    LET params == Signature(f)
        n == Len(params)
        given(i) == i <= Len(args) \/ params[i].name \in DictKeys(kwargs)
        supplied == SelectSeq([i \in 1..n |-> i], given)
    IN
    IF \/ Len(args) > n
       \/ \E key \in DictKeys(kwargs) : key \notin ParamNames(f)
       \/ \E i \in 1..n : i <= Len(args) /\ params[i].name \in DictKeys(kwargs)
       \/ \E i \in 1..n : ~given(i) /\ params[i].default = ParameterEmpty
    THEN [st |-> "TypeError", arguments |-> <<>>]
    ELSE [st |-> "ok",
          arguments |-> [j \in 1..Len(supplied) |->
                           <<params[supplied[j]].name,
                             IF supplied[j] <= Len(args) THEN args[supplied[j]]
                             ELSE DictGet(kwargs, params[supplied[j]].name)>>]]

\* bound.apply_defaults(): every parameter left out gets its default;
\* bound.arguments afterwards, in declaration order.
ApplyDefaults(f, arguments) ==
    LET params == Signature(f) IN
    [i \in 1..Len(params) |->
        <<params[i].name,
          IF params[i].name \in DictKeys(arguments) THEN DictGet(arguments, params[i].name)
          ELSE params[i].default>>]

\* A call of the wrapper that has not been made.  `supplied` (the names
\* bound by sig.bind), `applied` (the names whose converter was run) and
\* `invoked` are history.
WIdle == [pc |-> "idle", args |-> <<>>, kwargs |-> <<>>, supplied |-> {}, arguments |-> <<>>,
          errors |-> <<>>, applied |-> <<>>, exc |-> "", invoked |-> 0, result |-> NoResult]

\* wrapper(*args, **kwargs) up to its loop: bound = sig.bind(...),
\* bound.apply_defaults(), errors = {}.
WEnter(w, args, kwargs) ==
    LET b == SigBind(w.func, args, kwargs) IN
    IF b.st # "ok"
    THEN [WIdle EXCEPT !.pc = "aborted", !.args = args, !.kwargs = kwargs, !.exc = b.st]
    ELSE [WIdle EXCEPT !.pc = "collecting", !.args = args, !.kwargs = kwargs,
                       !.supplied = DictKeys(b.arguments),
                       !.arguments = ApplyDefaults(w.func, b.arguments)]

\* for name, converter in converters.items(): the loop from its entry
\* number i on, and `if errors: raise ConversionError(**errors)`.
RECURSIVE WConvertFrom(_, _, _)
WConvertFrom(w, c, i) ==
    IF i > Len(w.converters)
    THEN IF c.errors # <<>> THEN [c EXCEPT !.pc = "rejected", !.exc = "ConversionError"]
         ELSE [c EXCEPT !.pc = "invoking"]
    ELSE LET name == w.converters[i][1]
             r == Apply(w.converters[i][2], DictGet(c.arguments, name))
             ran == [c EXCEPT !.applied = Append(@, name)]
         IN
         IF r.st = "ok"
         THEN WConvertFrom(w, [ran EXCEPT !.arguments = DictSet(@, name, r.v)], i + 1)
         ELSE IF r.st = "ValueError"
         THEN WConvertFrom(w, [ran EXCEPT !.errors = DictSet(@, name, r.msg)], i + 1)
         ELSE [ran EXCEPT !.pc = "aborted", !.exc = r.st]

\* return func(*bound.args, **bound.kwargs): every parameter is bound, so
\* every value is passed by position.
WInvoke(w, c) ==
    LET r == CallFunc(w.func, [i \in 1..Len(c.arguments) |-> c.arguments[i][2]], <<>>) IN
    [c EXCEPT !.pc = "done", !.invoked = @ + 1, !.result = r,
              !.exc = IF r.kind = "return" THEN "" ELSE r.kind]

WrapperInit ==
    /\ wrapper = Deduce("add", CLUES)
    /\ wcall = WIdle

---------------------------------------------------------------------------
(* The wrapper called by one caller at a time.                             *)

CallIds == {1, 2}

Wrapped(f, recs) ==
    /\ func = f
    /\ wrapRecords = recs
    /\ positional_converters = BuildPositionalConverters(Signature(f), recs)
    /\ keyword_converters = BuildKeywordConverters(Signature(f), recs)
    /\ fresh = TRUE

Init ==
    /\ records = CLUES
    /\ \E f \in Funcs : Wrapped(f, CLUES)
    /\ calls = [c \in CallIds |-> Idle]
    /\ RegistryInit
    /\ RegexInit
    /\ WrapperInit
    /\ BrainInit
    /\ DefaultsInit

\* wrapped(*args, **kwargs) is called.
Begin(c, argsSet, kwargsSet) ==
    /\ calls[c].pc = "idle"
    /\ \E args \in argsSet, kwargs \in kwargsSet :
          calls' = [calls EXCEPT ![c] = Enter(Self, args, kwargs)]
    /\ fresh' = FALSE
    /\ UNCHANGED <<records, wrapRecords, func, positional_converters, keyword_converters>>
    /\ UNCHANGED registryVars
    /\ UNCHANGED regexVars
    /\ UNCHANGED wrapperVars
    /\ UNCHANGED brainVars
    /\ UNCHANGED defaultsVars

\* self.convert(args, kwargs) runs to its end.
Convert(c) ==
    /\ calls[c].pc = "collecting"
    /\ LET s == RunConvert(Self, calls[c]) IN
        /\ calls' = [calls EXCEPT ![c] = s.call]
        /\ keyword_converters' = s.kc
    /\ UNCHANGED <<records, wrapRecords, func, positional_converters, fresh>>
    /\ UNCHANGED registryVars
    /\ UNCHANGED regexVars
    /\ UNCHANGED wrapperVars
    /\ UNCHANGED brainVars
    /\ UNCHANGED defaultsVars

\* The underlying function is called with the converted values.
InvokeFunc(c) ==
    /\ calls[c].pc = "invoking"
    /\ calls' = [calls EXCEPT ![c] = Invoke(Self, calls[c])]
    /\ UNCHANGED <<records, wrapRecords, func, positional_converters, keyword_converters, fresh>>
    /\ UNCHANGED registryVars
    /\ UNCHANGED regexVars
    /\ UNCHANGED wrapperVars
    /\ UNCHANGED brainVars
    /\ UNCHANGED defaultsVars

\* The call has returned or raised to its caller: its frame is gone.
Leave(c) ==
    /\ Finished(calls[c])
    /\ calls' = [calls EXCEPT ![c] = Idle]
    /\ UNCHANGED <<records, wrapRecords, func, positional_converters, keyword_converters, fresh>>
    /\ UNCHANGED registryVars
    /\ UNCHANGED regexVars
    /\ UNCHANGED wrapperVars
    /\ UNCHANGED brainVars
    /\ UNCHANGED defaultsVars

Next ==
    \/ Begin(1, SeqsUpTo(Values, MaxArgs), KwargsUpTo(KwNames(func), MaxKwargs))
    \/ Convert(1)
    \/ InvokeFunc(1)
    \/ Leave(1)

Spec == Init /\ [][Next]_vars

---------------------------------------------------------------------------
(* Two callers of the same wrapper, their conversion loops interleaved     *)
(* iteration by iteration (threads switch between bytecodes).              *)

\* The values and the longest positional list of the interleaved calls.
ConcValues == {PyStr("2"), PyStr("foo")}
ConcMaxArgs == 2

\* One iteration of a loop of convert(), or its end.
Step(c) ==
    /\ calls[c].pc = "collecting"
    /\ LET s == ConvertStep(Self, calls[c]) IN
        /\ calls' = [calls EXCEPT ![c] = s.call]
        /\ keyword_converters' = s.kc
    /\ UNCHANGED <<records, wrapRecords, func, positional_converters, fresh>>
    /\ UNCHANGED registryVars
    /\ UNCHANGED regexVars
    /\ UNCHANGED wrapperVars
    /\ UNCHANGED brainVars
    /\ UNCHANGED defaultsVars

NextConc ==
    \E c \in CallIds :
        \/ Begin(c, SeqsUpTo(ConcValues, ConcMaxArgs),
                    {kw \in KwargsUpTo(KwNames(func), MaxKwargs) :
                        \A j \in 1..Len(kw) : kw[j][2] \in ConcValues})
        \/ Step(c)
        \/ InvokeFunc(c)

SpecConc == Init /\ [][NextConc]_vars

---------------------------------------------------------------------------
(* The registry changing under a wrapper.                                  *)

\* The clues recorded and the converters recorded for them.
RecordableClues == {"int", "isdigit"}
RecordableConverters == {"identity"}
\* The values and the longest positional list of the calls made meanwhile.
RegValues == {PyStr("2"), PyStr("foo")}
RegMaxArgs == 2

\* Detective.record(clue, converter)
Record(clue, converter) ==
    /\ records' = [k \in DOMAIN records \cup {clue} |->
                      IF k = clue THEN converter ELSE records[k]]
    /\ UNCHANGED <<wrapRecords, func, positional_converters, keyword_converters, fresh, calls>>
    /\ UNCHANGED registryVars
    /\ UNCHANGED regexVars
    /\ UNCHANGED wrapperVars
    /\ UNCHANGED brainVars
    /\ UNCHANGED defaultsVars

\* deduce(f, detective): a function is wrapped with the registry as it is.
Wrap(f) ==
    /\ \A c \in CallIds : calls[c].pc = "idle"
    /\ func' = f
    /\ wrapRecords' = records
    /\ positional_converters' = BuildPositionalConverters(Signature(f), records)
    /\ keyword_converters' = BuildKeywordConverters(Signature(f), records)
    /\ fresh' = TRUE
    /\ UNCHANGED <<records, calls>>
    /\ UNCHANGED registryVars
    /\ UNCHANGED regexVars
    /\ UNCHANGED wrapperVars
    /\ UNCHANGED brainVars
    /\ UNCHANGED defaultsVars

NextReg ==
    \/ \E clue \in RecordableClues, converter \in RecordableConverters : Record(clue, converter)
    \/ \E f \in Funcs : Wrap(f)
    \/ Begin(1, SeqsUpTo(RegValues, RegMaxArgs),
                {kw \in KwargsUpTo(KwNames(func), MaxKwargs) :
                    \A j \in 1..Len(kw) : kw[j][2] \in RegValues})
    \/ Convert(1)
    \/ InvokeFunc(1)
    \/ Leave(1)

SpecReg == Init /\ [][NextReg]_vars

---------------------------------------------------------------------------
(* A registry in use: aliases are registered, converters are looked up or  *)
(* chained, and the converter obtained is applied to values.               *)

\* registry.converter(converter, alias=alias) / registry.register(alias, converter)
Register(alias, converter) ==
    /\ aliases' = RegistryConverter(aliases, converter, alias)
    /\ registered' = [registered EXCEPT ![alias] = converter]
    /\ UNCHANGED probe
    /\ UNCHANGED binderVars
    /\ UNCHANGED regexVars
    /\ UNCHANGED wrapperVars
    /\ UNCHANGED brainVars
    /\ UNCHANGED defaultsVars

\* converter = registry.get(alias)
Get(flavour, alias) ==
    /\ probe.kind = "none"
    /\ probe' = [NoProbe EXCEPT !.kind = "get", !.flavour = flavour, !.args = <<alias>>,
                                !.lookups = <<GetOf(flavour, aliases, alias)>>,
                                !.built = aliases]
    /\ UNCHANGED <<aliases, registered>>
    /\ UNCHANGED binderVars
    /\ UNCHANGED regexVars
    /\ UNCHANGED wrapperVars
    /\ UNCHANGED brainVars
    /\ UNCHANGED defaultsVars

\* converter = registry.chain(*args)
Chain(flavour, args) ==
    /\ probe.kind = "none"
    /\ probe' = [NoProbe EXCEPT !.kind = "chain", !.flavour = flavour, !.args = args,
                                !.lookups = [i \in 1..Len(args) |-> GetOf(flavour, aliases, args[i])],
                                !.built = aliases]
    /\ UNCHANGED <<aliases, registered>>
    /\ UNCHANGED binderVars
    /\ UNCHANGED regexVars
    /\ UNCHANGED wrapperVars
    /\ UNCHANGED brainVars
    /\ UNCHANGED defaultsVars

\* The values a converter obtained is tried on.
InputsFor(p) ==
    IF p.kind = "get" /\ p.args[1] \in {"bool", "None"} THEN EquivInputs ELSE RegistryValues

\* converter(value), for the converter last obtained.
CallConverter(value) ==
    /\ probe.kind # "none"
    /\ \A i \in 1..Len(probe.lookups) : probe.lookups[i].st = "ok"
    /\ LET converters == ChainConverters(probe, aliases) IN
        probe' = [probe EXCEPT !.called = TRUE, !.arg = value,
                               !.stages = Stages(converters, value),
                               !.out = IF probe.kind = "get" THEN Apply(converters[1], value)
                                       ELSE ChainCall(converters, value)]
    /\ UNCHANGED <<aliases, registered>>
    /\ UNCHANGED binderVars
    /\ UNCHANGED regexVars
    /\ UNCHANGED wrapperVars
    /\ UNCHANGED brainVars
    /\ UNCHANGED defaultsVars

\* The converter obtained is dropped.
Drop ==
    /\ probe.called
    /\ probe' = NoProbe
    /\ UNCHANGED <<aliases, registered>>
    /\ UNCHANGED binderVars
    /\ UNCHANGED regexVars
    /\ UNCHANGED wrapperVars
    /\ UNCHANGED brainVars
    /\ UNCHANGED defaultsVars

NextRegistry ==
    \/ \E alias \in RegistryAliases, converter \in RegistryConverters : Register(alias, converter)
    \/ \E flavour \in Flavours, alias \in GetKeys : Get(flavour, alias)
    \/ \E flavour \in Flavours, args \in SeqsUpTo(LookupKeys, MaxChain) : Chain(flavour, args)
    \/ \E value \in InputsFor(probe) : CallConverter(value)
    \/ Drop

\* The registry is exercised beside one wrapped function, which is not called.
InitRegistry == Init /\ func = "add"

SpecRegistry == InitRegistry /\ [][NextRegistry]_vars

---------------------------------------------------------------------------
(* Regex converters applied to texts.                                      *)

\* One more character of the text a caller passes.
TypeChar(ch) ==
    /\ Len(text) < MaxLen
    /\ text' = Append(text, ch)
    /\ outcome' = NoOutcome
    /\ UNCHANGED binderVars
    /\ UNCHANGED registryVars
    /\ UNCHANGED wrapperVars
    /\ UNCHANGED brainVars
    /\ UNCHANGED defaultsVars

\* converter(text), for converter = cls(pattern)
CallRegex(cls, pattern) ==
    /\ outcome.cls = ""
    /\ LET m == Match(pattern, text) IN
        outcome' = [cls |-> cls, pattern |-> pattern, matched |-> m.ok, ends |-> m.ends,
                    out |-> RegexCall(cls, pattern, text)]
    /\ UNCHANGED text
    /\ UNCHANGED binderVars
    /\ UNCHANGED registryVars
    /\ UNCHANGED wrapperVars
    /\ UNCHANGED brainVars
    /\ UNCHANGED defaultsVars

NextRegex ==
    \/ \E ch \in Alphabet : TypeChar(ch)
    \/ CallRegex("Range", RangePattern)
    \/ \E pattern \in {DigitsPattern, RangePattern} : CallRegex("Regex", pattern)

\* The converters are exercised beside one wrapped function, which is not
\* called.
InitRegex == Init /\ func = "add"

SpecRegex == InitRegex /\ [][NextRegex]_vars

---------------------------------------------------------------------------
(* The brain in use.                                                       *)

\* brain.learn(alias, converter)
Learn(alias, converter) ==
    /\ brain' = BrainLearn(brain, alias, converter)
    /\ UNCHANGED thought
    /\ UNCHANGED binderVars
    /\ UNCHANGED registryVars
    /\ UNCHANGED regexVars
    /\ UNCHANGED wrapperVars
    /\ UNCHANGED defaultsVars

\* converter = brain.which(alias)
Which(alias) ==
    /\ thought.kind = "none"
    /\ thought' = [NoThought EXCEPT !.kind = "which", !.args = <<alias>>,
                                    !.lookups = <<BrainLookup(brain, "which", alias)>>,
                                    !.converters = <<BrainWhich(brain, alias)>>]
    /\ UNCHANGED brain
    /\ UNCHANGED binderVars
    /\ UNCHANGED registryVars
    /\ UNCHANGED regexVars
    /\ UNCHANGED wrapperVars
    /\ UNCHANGED defaultsVars

\* converter = brain.chain(*args)
ChainThought(args) ==
    /\ thought.kind = "none"
    /\ LET built == BrainChain(brain, args) IN
        thought' = [NoThought EXCEPT !.kind = "chain", !.args = args, !.exc = built.exc,
                                     !.lookups = built.lookups, !.converters = built.converters]
    /\ UNCHANGED brain
    /\ UNCHANGED binderVars
    /\ UNCHANGED registryVars
    /\ UNCHANGED regexVars
    /\ UNCHANGED wrapperVars
    /\ UNCHANGED defaultsVars

\* converter(value), for the converter the brain returned.
CallThought(value) ==
    /\ thought.kind # "none"
    /\ thought.exc = ""
    /\ ~thought.called
    /\ thought' = [thought EXCEPT !.called = TRUE, !.arg = value,
                                  !.out = IF thought.kind = "which"
                                          THEN Apply(thought.converters[1], value)
                                          ELSE ChainCall(thought.converters, value)]
    /\ UNCHANGED brain
    /\ UNCHANGED binderVars
    /\ UNCHANGED registryVars
    /\ UNCHANGED regexVars
    /\ UNCHANGED wrapperVars
    /\ UNCHANGED defaultsVars

\* The call has returned or raised and its result is dropped.
Forget ==
    /\ thought.called \/ thought.exc # ""
    /\ thought' = NoThought
    /\ UNCHANGED brain
    /\ UNCHANGED binderVars
    /\ UNCHANGED registryVars
    /\ UNCHANGED regexVars
    /\ UNCHANGED wrapperVars
    /\ UNCHANGED defaultsVars

NextBrain ==
    \/ \E alias \in RegistryAliases, converter \in RegistryConverters : Learn(alias, converter)
    \/ \E alias \in LookupKeys : Which(alias)
    \/ \E args \in SeqsUpTo(LookupKeys, MaxChain) : ChainThought(args)
    \/ \E value \in RegistryValues : CallThought(value)
    \/ Forget

\* The brain is exercised beside one wrapped function, which is not called.
InitBrain == Init /\ func = "add"

SpecBrain == InitBrain /\ [][NextBrain]_vars

---------------------------------------------------------------------------
(* The default registries in use.                                          *)

\* registry = Registry.default()
NewDefault ==
    /\ Len(defaults) < MaxRegistries
    /\ defaults' = Append(defaults, RegistryDefault)
    /\ UNCHANGED <<REGISTRY, punctuated>>
    /\ UNCHANGED binderVars
    /\ UNCHANGED registryVars
    /\ UNCHANGED regexVars
    /\ UNCHANGED wrapperVars
    /\ UNCHANGED brainVars

\* registry.converter(converter, alias=alias) on one of the registries built
\* by Registry.default(), the first being the module-level one.
RegisterOn(r, alias, converter) ==
    /\ r \in 1..Len(defaults)
    /\ defaults' = [defaults EXCEPT ![r] = RegistryConverter(@, converter, alias)]
    /\ UNCHANGED <<REGISTRY, punctuated>>
    /\ UNCHANGED binderVars
    /\ UNCHANGED registryVars
    /\ UNCHANGED regexVars
    /\ UNCHANGED wrapperVars
    /\ UNCHANGED brainVars

\* colon.register(alias, converter): the pre-bound _REGISTRY.register.
ColonRegister(alias, converter) ==
    /\ REGISTRY' = RegistryConverter(REGISTRY, converter, alias)
    /\ UNCHANGED <<defaults, punctuated>>
    /\ UNCHANGED binderVars
    /\ UNCHANGED registryVars
    /\ UNCHANGED regexVars
    /\ UNCHANGED wrapperVars
    /\ UNCHANGED brainVars

\* wrapped.registry.converter(converter, alias=alias): a registration on the
\* registry a class-based wrapper built for itself.
RegisterOnOwn(w, alias, converter) ==
    /\ w \in 1..Len(punctuated)
    /\ punctuated[w].binder = "class"
    /\ punctuated' = [punctuated EXCEPT ![w].registry = RegistryConverter(@, converter, alias)]
    /\ UNCHANGED <<defaults, REGISTRY>>
    /\ UNCHANGED binderVars
    /\ UNCHANGED registryVars
    /\ UNCHANGED regexVars
    /\ UNCHANGED wrapperVars
    /\ UNCHANGED brainVars

\* wrapped = punctuate(f), the class of src/deduce/punctuate.py
WrapClass(f) ==
    /\ Len(punctuated) < MaxWrapped
    /\ punctuated' = Append(punctuated, PunctuateClass(f))
    /\ UNCHANGED <<defaults, REGISTRY>>
    /\ UNCHANGED binderVars
    /\ UNCHANGED registryVars
    /\ UNCHANGED regexVars
    /\ UNCHANGED wrapperVars
    /\ UNCHANGED brainVars

\* wrapped = punctuate(f), the function of src/colon/__init__.py
WrapColon(f) ==
    /\ Len(punctuated) < MaxWrapped
    /\ punctuated' = Append(punctuated, PunctuateColon(f, REGISTRY))
    /\ UNCHANGED <<defaults, REGISTRY>>
    /\ UNCHANGED binderVars
    /\ UNCHANGED registryVars
    /\ UNCHANGED regexVars
    /\ UNCHANGED wrapperVars
    /\ UNCHANGED brainVars

\* The wrapped function last made is let go.
Unwrap ==
    /\ punctuated # <<>>
    /\ punctuated' = SubSeq(punctuated, 1, Len(punctuated) - 1)
    /\ UNCHANGED <<defaults, REGISTRY>>
    /\ UNCHANGED binderVars
    /\ UNCHANGED registryVars
    /\ UNCHANGED regexVars
    /\ UNCHANGED wrapperVars
    /\ UNCHANGED brainVars

NextDefaults ==
    \/ NewDefault
    \/ \E r \in 1..MaxRegistries, alias \in RegistryAliases, converter \in DefaultsConverters :
          RegisterOn(r, alias, converter)
    \/ \E alias \in RegistryAliases, converter \in DefaultsConverters : ColonRegister(alias, converter)
    \/ \E w \in 1..MaxWrapped, alias \in RegistryAliases, converter \in DefaultsConverters :
          RegisterOnOwn(w, alias, converter)
    \/ \E f \in PunctuatedFuncs : WrapClass(f)
    \/ \E f \in PunctuatedFuncs : WrapColon(f)
    \/ Unwrap

\* The registries are exercised beside one wrapped function, which is not
\* called.
InitDefaults == Init /\ func = "add"

SpecDefaults == InitDefaults /\ [][NextDefaults]_vars

---------------------------------------------------------------------------
(* The function-style wrapper in use.                                      *)

\* wrapped = deduce(f): a function is wrapped with the default detective.
DeduceFunc(f) ==
    /\ wcall.pc = "idle"
    /\ wrapper' = Deduce(f, CLUES)
    /\ UNCHANGED wcall
    /\ UNCHANGED binderVars
    /\ UNCHANGED registryVars
    /\ UNCHANGED regexVars
    /\ UNCHANGED brainVars
    /\ UNCHANGED defaultsVars

\* wrapped(*args, **kwargs) is called: the arguments are bound.
WBegin ==
    /\ wcall.pc = "idle"
    /\ \E args \in SeqsUpTo(Values, MaxArgs), kwargs \in KwargsUpTo(KwNames(wrapper.func), MaxKwargs) :
          wcall' = WEnter(wrapper, args, kwargs)
    /\ UNCHANGED wrapper
    /\ UNCHANGED binderVars
    /\ UNCHANGED registryVars
    /\ UNCHANGED regexVars
    /\ UNCHANGED brainVars
    /\ UNCHANGED defaultsVars

\* The loop over the converters runs to its end.
WConvert ==
    /\ wcall.pc = "collecting"
    /\ wcall' = WConvertFrom(wrapper, wcall, 1)
    /\ UNCHANGED wrapper
    /\ UNCHANGED binderVars
    /\ UNCHANGED registryVars
    /\ UNCHANGED regexVars
    /\ UNCHANGED brainVars
    /\ UNCHANGED defaultsVars

\* The underlying function is called with the bound values.
WInvokeFunc ==
    /\ wcall.pc = "invoking"
    /\ wcall' = WInvoke(wrapper, wcall)
    /\ UNCHANGED wrapper
    /\ UNCHANGED binderVars
    /\ UNCHANGED registryVars
    /\ UNCHANGED regexVars
    /\ UNCHANGED brainVars
    /\ UNCHANGED defaultsVars

\* The call has returned or raised to its caller.
WLeave ==
    /\ Finished(wcall)
    /\ wcall' = WIdle
    /\ UNCHANGED wrapper
    /\ UNCHANGED binderVars
    /\ UNCHANGED registryVars
    /\ UNCHANGED regexVars
    /\ UNCHANGED brainVars
    /\ UNCHANGED defaultsVars

NextWrapper ==
    \/ \E f \in WrapperFuncs : DeduceFunc(f)
    \/ WBegin
    \/ WConvert
    \/ WInvokeFunc
    \/ WLeave

\* The wrapper is exercised beside the class-based one, which is not called.
InitWrapper == Init /\ func = "add"

SpecWrapper == InitWrapper /\ [][NextWrapper]_vars

---------------------------------------------------------------------------
(* What the signature says of a call: the reference the claims are stated  *)
(* against.  Python binds the k-th positional value to the k-th declared   *)
(* parameter and a keyword value to the parameter of that name.            *)

NParams(f) == Len(Signature(f))
RequiredOf(f) == Filter(Signature(f), TRUE)
OptionalOf(f) == Filter(Signature(f), FALSE)
SeqNames(ps) == [i \in 1..Len(ps) |-> ps[i].name]
SeqRange(q) == {q[i] : i \in 1..Len(q)}
AnnotatedNames(f) ==
    {Signature(f)[i].name : i \in {n \in 1..NParams(f) : Signature(f)[n].annotation # NoAnnotation}}

\* The converter a parameter's annotation stands for under registry recs
\* (Identity for an unannotated parameter or an undeclared name).
DeclaredConverter(f, recs, name) ==
    IF name \in AnnotatedNames(f)
    THEN LET p == CHOOSE q \in SeqRange(Signature(f)) : q.name = name IN
         IF p.annotation \in DOMAIN recs THEN recs[p.annotation] ELSE p.annotation
    ELSE "identity"

\* The supplied values that land on a declared parameter or a keyword name:
\* <<name, value>>.
Supplied(f, c) ==
    {<<Signature(f)[i].name, c.args[i]>> : i \in 1..(IF Len(c.args) < NParams(f) THEN Len(c.args) ELSE NParams(f))}
    \cup SeqRange(c.kwargs)

Conversion(f, recs, nv) == Apply(DeclaredConverter(f, recs, nv[1]), nv[2])

\* The declared parameters whose supplied value its converter rejects.
RejectedParams(f, recs, c) ==
    {nv[1] : nv \in {x \in Supplied(f, c) : Conversion(f, recs, x).st = "ValueError"}}

\* Every converter failure of the call is a ValueError.
OnlyValueErrors(f, recs, c) ==
    \A nv \in Supplied(f, c) : Conversion(f, recs, nv).st \in {"ok", "ValueError"}

\* Every supplied value converts.
AllConvert(f, recs, c) ==
    \A nv \in Supplied(f, c) : Conversion(f, recs, nv).st = "ok"

\* f(*converted_args, **converted_kwargs), each value converted by its own
\* parameter's converter.
Reference(f, recs, c) ==
    CallFunc(f,
        [i \in 1..Len(c.args) |->
            IF i <= NParams(f)
            THEN Conversion(f, recs, <<Signature(f)[i].name, c.args[i]>>).v
            ELSE c.args[i]],
        [j \in 1..Len(c.kwargs) |->
            <<c.kwargs[j][1], Conversion(f, recs, c.kwargs[j]).v>>])

Active == {c \in CallIds : calls[c].pc # "idle"}

---------------------------------------------------------------------------
(* Claims.                                                                 *)

\* C1: when every converter failure of a call is a ValueError, the
\* ConversionError raised carries exactly the declared parameters whose
\* supplied value was rejected by that parameter's converter, and none is
\* raised when no value is rejected.
C1_ErrorsAreExactlyTheRejected ==
    \A c \in Active :
        OnlyValueErrors(func, wrapRecords, calls[c]) =>
            /\ calls[c].pc = "rejected" =>
                  DictKeys(calls[c].errors) = RejectedParams(func, wrapRecords, calls[c])
            /\ RejectedParams(func, wrapRecords, calls[c]) = {} => calls[c].pc # "rejected"

\* The positions a call may move between according to the claim C2 as
\* stated: Collecting -> Rejected, Collecting -> Invoking -> Done (a call
\* begins at Collecting and its frame is dropped once it has ended).
C2_StatedMoves ==
    {<<"idle", "collecting">>, <<"collecting", "rejected">>, <<"collecting", "invoking">>,
     <<"invoking", "done">>, <<"rejected", "idle">>, <<"done", "idle">>, <<"aborted", "idle">>}

\* C2 as stated: a call goes Collecting -> Rejected or Collecting ->
\* Invoking -> Done, with no other path.
C2_NoOtherPath ==
    [][\A c \in CallIds :
          calls'[c].pc # calls[c].pc => <<calls[c].pc, calls'[c].pc>> \in C2_StatedMoves]_vars

C2_FunctionGuard ==
    \A c \in Active :
        LET call == calls[c] IN
        /\ call.invoked <= 1
        /\ call.invoked = 1 <=> call.pc = "done"
        /\ call.pc \in {"invoking", "done"} =>
              /\ call.errors = <<>>
              /\ call.exc # "ConversionError"
              /\ Len(call.used) = Len(call.args) + Len(call.kwargs)
              /\ Len(call.converted_args) = Len(call.args)
              /\ DictKeys(call.converted_kwargs) = DictKeys(call.kwargs)
        /\ call.pc = "rejected" => call.errors # <<>> /\ call.exc = "ConversionError"
        /\ call.pc = "aborted" => call.exc \notin {"", "ConversionError"}

\* C2, amended: the underlying function is invoked at most once per call,
\* only after every supplied value has been passed to its converter and only
\* when no conversion failed; a call goes Collecting -> Rejected, Collecting
\* -> Invoking -> Done, or leaves Collecting with an exception that is not
\* ConversionError (a converter's non-ValueError failure, or the binder's own
\* StopIteration), the function not invoked.
C2_Paths ==
    /\ []C2_FunctionGuard
    /\ [][\A c \in CallIds :
            calls'[c].pc # calls[c].pc =>
                <<calls[c].pc, calls'[c].pc>> \in C2_StatedMoves \cup {<<"collecting", "aborted">>}]_vars

\* C2's case: a call with positional and keyword values that ended with the
\* function invoked once.
C2_Witness ==
    \E c \in CallIds :
        /\ calls[c].pc = "done" /\ calls[c].invoked = 1
        /\ calls[c].args # <<>> /\ calls[c].kwargs # <<>>

\* C3: a call whose supplied values all convert returns exactly
\* f(*converted_args, **converted_kwargs), each value replaced by the result
\* of its own parameter's converter.
C3_ReturnsFunctionOfConverted ==
    \A c \in Active :
        (Finished(calls[c]) /\ Len(calls[c].args) <= NParams(func)
                            /\ AllConvert(func, wrapRecords, calls[c])) =>
            /\ calls[c].pc = "done"
            /\ calls[c].result = Reference(func, wrapRecords, calls[c])

\* C4: the k-th positional value beyond the required parameters is converted
\* with the converter of the k-th optional parameter in declaration order
\* (Identity when unannotated), under that parameter's name.
C4_OverflowFollowsDeclarationOrder ==
    \A c \in Active :
        LET call == calls[c]
            nreq == Len(RequiredOf(func))
            opt == OptionalOf(func)
            npos == IF Len(call.used) < Len(call.args) THEN Len(call.used) ELSE Len(call.args)
        IN
        \A idx \in 1..npos :
            (idx > nreq /\ idx - nreq <= Len(opt)) =>
                call.used[idx] = <<opt[idx - nreq].name,
                                   DeclaredConverter(func, wrapRecords, opt[idx - nreq].name)>>

C6_PlanCoversTheSignature ==
    fresh =>
        /\ [i \in 1..Len(positional_converters) |-> positional_converters[i][1]]
              = SeqNames(RequiredOf(func))
        /\ DictKeys(keyword_converters) = SeqRange(SeqNames(OptionalOf(func)))

\* C7: calls leave the wrapper's plan as it was built.
C7_PlanIsNeverChanged ==
    /\ positional_converters = BuildPositionalConverters(Signature(func), wrapRecords)
    /\ keyword_converters = BuildKeywordConverters(Signature(func), wrapRecords)

\* The call alone: convert() and the function's call run from the wrapper as
\* the call found it, no other call's step in between.
Alone(c) ==
    LET s == RunConvert([Self EXCEPT !.keyword_converters = c.plan0],
                        Enter([Self EXCEPT !.keyword_converters = c.plan0], c.args, c.kwargs))
    IN IF s.call.pc = "invoking" THEN Invoke(Self, s.call) ELSE s.call

\* What the caller and the function see of a call.
Outcome(c) == [pc |-> c.pc, exc |-> c.exc, errors |-> c.errors, used |-> c.used,
               result |-> c.result]

\* C8: a call interleaved with another call of the same wrapper ends with
\* the outcome it has when it runs alone, drawing the same converters.
C8_InterleavedCallsEndAsAlone ==
    \A c \in Active : Finished(calls[c]) => Outcome(calls[c]) = Outcome(Alone(calls[c]))

\* The declared parameters whose converter the plan holds: the required
\* ones and the annotated optional ones.
PlanNames(f) == SeqRange(SeqNames(RequiredOf(f))) \cup (SeqRange(SeqNames(OptionalOf(f))) \cap AnnotatedNames(f))

\* C9: the converters a wrapper holds and applies are those the registry
\* gave when the function was wrapped, whatever is recorded afterwards; a
\* function wrapped after a registration holds the new converter.
C9_SnapshotAtWrapTime ==
    /\ \A i \in 1..Len(positional_converters) :
          positional_converters[i][2] =
              DeclaredConverter(func, wrapRecords, positional_converters[i][1])
    /\ \A i \in 1..Len(keyword_converters) :
          keyword_converters[i][1] \in PlanNames(func) \ SeqRange(SeqNames(RequiredOf(func))) =>
              keyword_converters[i][2] =
                  DeclaredConverter(func, wrapRecords, keyword_converters[i][1])
    /\ \A c \in Active :
          LET call == calls[c]
              npos == IF Len(call.used) < Len(call.args) THEN Len(call.used) ELSE Len(call.args)
          IN
          \A idx \in 1..Len(call.used) :
              \/ idx <= npos /\ idx <= Len(RequiredOf(func))
              \/ call.used[idx][1] \in PlanNames(func) \ SeqRange(SeqNames(RequiredOf(func)))
              => call.used[idx][2] = DeclaredConverter(func, wrapRecords, call.used[idx][1])

\* C9's case: a converter was recorded after wrapping for the annotation of
\* a parameter, and a call has since applied that parameter's converter.
C9_Witness ==
    \E c \in CallIds :
        /\ Finished(calls[c])
        /\ \E idx \in 1..Len(calls[c].used) :
              /\ calls[c].used[idx][1] \in PlanNames(func) \cap AnnotatedNames(func)
              /\ DeclaredConverter(func, records, calls[c].used[idx][1])
                    # DeclaredConverter(func, wrapRecords, calls[c].used[idx][1])
              /\ calls[c].used[idx][2] = DeclaredConverter(func, wrapRecords, calls[c].used[idx][1])

\* C10: a keyword argument whose name is not an annotated parameter reaches
\* the underlying function under its name with its value unchanged and is
\* never reported in the aggregated error.
C10_UnannotatedKeywordsPassThrough ==
    \A c \in Active :
        \A j \in 1..Len(calls[c].kwargs) :
            LET name == calls[c].kwargs[j][1]
                value == calls[c].kwargs[j][2]
            IN
            name \notin AnnotatedNames(func) =>
                /\ calls[c].pc \in {"invoking", "done"} =>
                      /\ name \in DictKeys(calls[c].converted_kwargs)
                      /\ DictGet(calls[c].converted_kwargs, name) = value
                /\ name \notin DictKeys(calls[c].errors)

\* C10's case: the function was invoked by a call that passed a keyword the
\* function does not declare.
C10_Witness ==
    \E c \in CallIds :
        /\ calls[c].pc = "done"
        /\ \E j \in 1..Len(calls[c].kwargs) : calls[c].kwargs[j][1] = UnknownName

\* The supplied value the idx-th converter of a call was applied to: the
\* positional values first, then the keyword values.
ValueAt(call, idx) ==
    IF idx <= Len(call.args) THEN call.args[idx] ELSE call.kwargs[idx - Len(call.args)][2]

\* C12: a failure that is no conversion failure leaves the call unchanged:
\* an exception of the function's body (a ValueError included) reaches the
\* caller as raised, never as ConversionError; a converter raising
\* something other than ValueError ends the call there with that exception,
\* even when earlier parameters failed conversion, the function not invoked.
C12_UnrelatedFailuresPropagate ==
    \A c \in Active :
        LET call == calls[c] IN
        /\ call.pc = "done" =>
              /\ call.result = CallFunc(func, call.converted_args, call.converted_kwargs)
              /\ call.exc = (IF call.result.kind = "return" THEN "" ELSE call.result.kind)
        /\ \A idx \in 1..Len(call.used) :
              LET r == Apply(call.used[idx][2], ValueAt(call, idx)) IN
              r.st \notin {"ok", "ValueError"} =>
                  /\ call.pc = "aborted" /\ call.exc = r.st
                  /\ call.invoked = 0 /\ idx = Len(call.used)

\* C12's case: a converter raised TypeError after another parameter had
\* failed conversion.
C12_Witness ==
    \E c \in CallIds :
        /\ calls[c].pc = "aborted" /\ calls[c].exc = "TypeError"
        /\ calls[c].errors # <<>>

\* The function's body raised ValueError and the call ended with it.
C12_BodyWitness ==
    \E c \in CallIds :
        /\ calls[c].pc = "done" /\ calls[c].exc = "ValueError"
        /\ calls[c].result.kind = "ValueError"

---------------------------------------------------------------------------
(* Claims about the registry and the converters.                           *)

\* The converters a chain or lookup resolves to on the registry d.
Resolved(flavour, d, args) == [i \in 1..Len(args) |-> GetOf(flavour, d, args[i]).converter]

C11_Lookup ==
    probe.kind = "get" =>
        LET alias == probe.args[1]
            l == probe.lookups[1]
        IN
        /\ l.st = "ok"
        /\ alias \in DictKeys(probe.built) => l.converter = DictGet(probe.built, alias)
        /\ (alias \notin DictKeys(probe.built) /\ probe.called) =>
              /\ probe.out = Apply(alias, probe.arg)
              /\ probe.out.st = "ValueError" <=> Apply(alias, probe.arg).st = "ValueError"

\* C11: Registry.get never raises for an unregistered key: for a registered
\* key it returns the converter registered under it; for an unregistered key
\* it returns a converter that applied to v gives what key(v) gives, a
\* ValueError exactly when key(v) raises ValueError; the lookup leaves the
\* registry as it was (and succeeds for a key whose call would raise).
C11_GetNeverRaises ==
    /\ []C11_Lookup
    /\ [][(probe.kind = "none" /\ probe'.kind = "get") => aliases' = aliases]_vars

\* C11's case: an unregistered key was looked up and the converter returned
\* rejected a value as key itself does.
C11_Witness ==
    /\ probe.kind = "get" /\ probe.called
    /\ probe.args[1] \notin DictKeys(probe.built)
    /\ probe.out.st = "ValueError"

C13_Latest ==
    \A a \in GetKeys :
        registered[a] # "" =>
            \A flavour \in Flavours : GetOf(flavour, aliases, a) = Found(registered[a])

\* C13: get(k) returns the converter most recently registered under k, and
\* a registration under k changes the result of get for no other key.
C13_LastRegistrationWins ==
    /\ []C13_Latest
    /\ [][\A a \in GetKeys :
            registered'[a] = registered[a] =>
                \A flavour \in Flavours :
                    GetOf(flavour, aliases', a) = GetOf(flavour, aliases, a)]_vars

\* C13's case: a registration overwrote the default converter of an alias
\* while another alias was registered too, and the overwritten alias was
\* looked up.
C13_Witness ==
    /\ registered["isdigit"] = "identity"
    /\ registered["int"] = "Filter(isdigit)"
    /\ probe.kind = "get" /\ probe.args = <<"isdigit">>
    /\ probe.lookups[1] = Found("identity")

\* c_n(...c_2(c_1(x))...) for the first n converters of cs; the first
\* exception raised is the result.
RECURSIVE Compose(_, _, _)
Compose(cs, n, x) ==
    IF n = 0 THEN Ok(x)
    ELSE LET r == Compose(cs, n - 1, x) IN
         IF r.st = "ok" THEN Apply(cs[n], r.v) ELSE r

\* C14: chain(c1, ..., cn) applied to x returns cn(...c1(x)...) when every
\* stage succeeds; when stage i is the first to fail, the chain signals a
\* conversion failure with stage i's message and applies no later stage (an
\* exception that is no ValueError leaves the chain as raised); the aliases
\* are resolved through get when the chain is built.
C14_ChainComposes ==
    probe.kind = "chain" =>
        LET cs == Resolved(probe.flavour, probe.built, probe.args)
            n == Len(cs)
            x == probe.arg
        IN
        /\ \A i \in 1..n : probe.lookups[i] = Found(cs[i])
        /\ probe.called =>
              /\ (\A i \in 1..n : Compose(cs, i, x).st = "ok") =>
                    probe.out = Compose(cs, n, x) /\ Len(probe.stages) = n
              /\ \A i \in 1..n :
                    (Compose(cs, i, x).st # "ok" /\ Compose(cs, i - 1, x).st = "ok") =>
                        /\ Len(probe.stages) = i
                        /\ probe.out.st = Compose(cs, i, x).st
                        /\ probe.out.msg = Compose(cs, i, x).msg

\* C14's case: a chain of two aliases was built, one of its aliases was
\* registered anew afterwards, and the chain applied failed at its second
\* stage.
C14_Witness ==
    /\ probe.kind = "chain" /\ probe.called /\ Len(probe.args) = 2
    /\ Resolved(probe.flavour, aliases, probe.args)
          # Resolved(probe.flavour, probe.built, probe.args)
    /\ Len(probe.stages) = 2 /\ probe.out.st = "ValueError"

\* C15: Identity is a left and right unit for chain: chain(Identity, c),
\* chain(c) and chain(c, Identity) give the same result on every input, the
\* same value or the same failure kind and message.
C15_IdentityIsUnit ==
    (probe.kind = "chain" /\ probe.called) =>
        \A c \in LookupKeys :
            probe.args \in {<<"identity", c>>, <<c>>, <<c, "identity">>} =>
                /\ probe.out = ChainCall(Resolved(probe.flavour, probe.built, <<c>>), probe.arg)
                /\ probe.out = ChainCall(Resolved(probe.flavour, probe.built, <<"identity", c>>), probe.arg)
                /\ probe.out = ChainCall(Resolved(probe.flavour, probe.built, <<c, "identity">>), probe.arg)

\* C15's case: chain(c, Identity) was applied to a value c rejects.
C15_Witness ==
    /\ probe.kind = "chain" /\ probe.called
    /\ probe.args = <<"int", "identity">>
    /\ probe.out.st = "ValueError"

\* C16: Transform(fn, kind) applied to v returns fn(v) when fn succeeds,
\* raises ValueError with the exception's message when fn raises an
\* exception of the configured kind, and lets an exception of any other
\* kind through unmodified.
C16_TransformNormalises ==
    (probe.kind = "get" /\ probe.called /\ probe.lookups[1].converter \in Transforms) =>
        LET t == TransformFields(probe.lookups[1].converter)
            r == Apply(t[1], probe.arg)
        IN
        /\ r.st = "ok" => probe.out = r
        /\ r.st = t[2] => probe.out = Raise("ValueError", r.msg)
        /\ r.st \notin {"ok", t[2]} => probe.out = r

\* C16's case: a Transform configured with decimal.InvalidOperation was
\* applied to a value its function rejects with that exception.
C16_Witness ==
    /\ probe.kind = "get" /\ probe.called
    /\ probe.lookups[1].converter = Transform("Decimal", "InvalidOperation")
    /\ probe.arg = PyStr("foo")
    /\ probe.out = Raise("ValueError", "[<class 'decimal.ConversionSyntax'>]")

\* The output value of a table whose set of raw inputs contains the input.
TableOutputs(table, value) ==
    {table[i][1] : i \in {j \in 1..Len(table) : value.k = "str" /\ value.s \in table[j][2].members}}

\* C17: the equivalence converters of the default aliases bool and None
\* return the output value whose set contains the input ('true' gives True,
\* 'no' gives False, 'null' gives None) and signal a conversion failure for
\* an input contained in no set.
C17_EquivMapsInputsToOutputs ==
    (probe.kind = "get" /\ probe.called /\ probe.lookups[1].converter \in {"Equiv(bool)", "Equiv(None)"}) =>
        LET table == IF probe.lookups[1].converter = "Equiv(bool)" THEN BoolTable ELSE NoneTable
            outs == TableOutputs(table, probe.arg)
        IN
        /\ \A o \in outs : probe.out = Ok(o)
        /\ outs = {} => probe.out.st = "ValueError"

AllDigits(v, a, b) == a <= b /\ \A i \in a..b : v[i] \in Digits

\* v[a..b] is ":", ".." or "..."
IsSeparator(v, a, b) ==
    \/ a = b /\ v[a] = ":"
    \/ (b - a + 1) \in {2, 3} /\ \A i \in a..b : v[i] = "."

\* The ways v starts with min, a separator and max: <<a, b, c>>, min being
\* v[1..a], the separator v[a+1..b] and max v[b+1..c].
Forms(v) ==
    {f \in (1..Len(v)) \X (1..Len(v)) \X (1..Len(v)) :
        /\ f[1] < f[2] /\ f[2] < f[3]
        /\ AllDigits(v, 1, f[1]) /\ IsSeparator(v, f[1] + 1, f[2]) /\ AllDigits(v, f[2] + 1, f[3])}

\* C18: for all non-negative integers min and max written in decimal, Range
\* turns "min:max", "min..max" and "min...max" into range(min, max), the
\* same for the three separators; an input that does not start with such a
\* form signals a conversion failure.
C18_RangeParsesTheThreeForms ==
    outcome.cls = "Range" =>
        /\ \A f \in Forms(text) :
              f[3] = Len(text) =>
                  outcome.out = Ok(PyRange(IntOfDigits(SubSeq(text, 1, f[1])),
                                           IntOfDigits(SubSeq(text, f[2] + 1, f[3]))))
        /\ Forms(text) = {} => outcome.out.st = "ValueError"

\* C18's case: "1...5" was converted to range(1, 5).
C18_Witness ==
    /\ text = <<"1", ".", ".", ".", "5">>
    /\ outcome.cls = "Range"
    /\ outcome.out = Ok(PyRange(1, 5))

\* C19: the base Regex converter signals a conversion failure on an input
\* its pattern does not match, and on an input it matches returns the
\* matched substring: the part of the input the pattern matched, without
\* the characters after it.
C19_RegexReturnsTheMatchedSubstring ==
    outcome.cls = "Regex" =>
        /\ ~outcome.matched => outcome.out.st = "ValueError"
        /\ outcome.matched =>
              outcome.out = Ok(PyStr(Join(SubSeq(text, 1, outcome.ends[Len(outcome.ends)]))))

\* The parameter of the wrapped function with the given name.
ParamOf(f, name) == CHOOSE q \in SeqRange(Signature(f)) : q.name = name

\* C20: in the function-style wrapper a converter is applied only to the
\* values the caller supplied: for an annotated optional parameter left out
\* of the call, its converter is not run, no error is reported under its
\* name, and the function runs with its declared default.
C20_OnlySuppliedValuesAreConverted ==
    wcall.pc # "idle" =>
        /\ \A idx \in 1..Len(wcall.applied) : wcall.applied[idx] \in wcall.supplied
        /\ DictKeys(wcall.errors) \subseteq wcall.supplied
        /\ (wcall.pc = "done" =>
              \A name \in DictKeys(wcall.arguments) \ wcall.supplied :
                  DictGet(wcall.arguments, name) = ParamOf(wrapper.func, name).default)

\* C21: Brain.chain called with one or more converters or aliases returns a
\* converter without failing at construction: each argument is resolved by
\* the brain's which, and the converter returned applies the resolved
\* converters in order.
C21_ChainResolvesThroughWhich ==
    (thought.kind = "chain" /\ Len(thought.args) >= 1) =>
        /\ thought.exc = ""
        /\ thought.converters = [i \in 1..Len(thought.args) |-> BrainWhich(brain, thought.args[i])]
        /\ thought.called => thought.out = ChainCall(thought.converters, thought.arg)

\* Every function wrapped with the registry omitted resolves its annotations
\* as a default registry nothing was registered on does.
C22_WrappedResolvePristine ==
    \A w \in 1..Len(punctuated) : punctuated[w].plan = PristinePlan(punctuated[w])

\* A registry just built by Registry.default(), and the one a class-based
\* wrapper just built for itself, hold exactly the default aliases.
C22_BuiltPristine ==
    /\ (Len(defaults') > Len(defaults) => defaults'[Len(defaults')] = RegistryDefault)
    /\ (Len(punctuated') > Len(punctuated) /\ punctuated'[Len(punctuated')].binder = "class"
          => punctuated'[Len(punctuated')].registry = RegistryDefault)

\* A step changes at most one registry: a registration on one instance leaves
\* every other instance and the plan of every wrapped function as they were.
C22_OneRegistryPerStep ==
    LET changedDefaults == {r \in 1..Len(defaults) : defaults'[r] # defaults[r]}
        kept == IF Len(punctuated') < Len(punctuated) THEN Len(punctuated') ELSE Len(punctuated)
        changedOwn == {w \in 1..kept : punctuated'[w].registry # punctuated[w].registry}
        changedModule == IF REGISTRY' # REGISTRY THEN {0} ELSE {}
    IN /\ Cardinality(changedDefaults) + Cardinality(changedOwn) + Cardinality(changedModule) <= 1
       /\ \A w \in 1..kept : punctuated'[w].plan = punctuated[w].plan

\* C22: default registries are isolated: every Registry.default() builds an
\* independent registry and a wrapper given no registry builds its own, so
\* after any registrations on some registry instance (a module-level one
\* included) every other default instance and every function wrapped with the
\* registry omitted resolve every key as a pristine default registry does.
C22_DefaultRegistriesAreIsolated ==
    /\ []C22_WrappedResolvePristine
    /\ [][C22_BuiltPristine /\ C22_OneRegistryPerStep]_vars

=============================================================================
